---- MODULE Spec2Model ----
(***************************************************************************)
(* PrivatBank currency exchange retrieval (task_1.py).                     *)
(*                                                                         *)
(* Two specifications:                                                     *)
(*   Spec    one run of main(): argument validation, construction of the   *)
(*           date range, the sequential fetch loop with its session and    *)
(*           error paths, and the top-level exception handlers;            *)
(*   FnSpec  the pure functions filter_exchange_info_by_currency and       *)
(*           reformat_currency_exchange_info applied to bounded inputs.    *)
(*                                                                         *)
(* Python values are encoded as follows.  A dict with optional keys is a   *)
(* function whose DOMAIN holds the keys present.  A "list or None" value   *)
(* is a record [none, items].  JSON numbers are opaque decimal literals    *)
(* (strings): the program never computes with them.  A calendar date is    *)
(* its proleptic Gregorian ordinal (date.toordinal()).  A formatted date   *)
(* is the sequence of its characters.                                      *)
(***************************************************************************)
EXTENDS Integers, Sequences, FiniteSets, TLC

(***************************************************************************)
(* Bounds of the model.                                                    *)
(***************************************************************************)
\* days_offset ranges over -OffsetMargin .. MAX_DAYS_OFFSET + OffsetMargin
OffsetMargin == 1
\* longest exchangeRate list given to the pure functions in FnSpec
MaxLen == 3

(***************************************************************************)
(* Program constants.                                                      *)
(***************************************************************************)
EXCHANGE_API_URL == "https://api.privatbank.ua/p24api/exchange_rates"

DEFAULT_CURRENCY_LIST == <<"USD", "EUR">>

\* upper limit of days_offset in the validation
MAX_DAYS_OFFSET == 10

\* the only status that is a success
HTTP_OK == 200

\* default of value.get('saleRate', ...) and value.get('purchaseRate', ...)
Unknown == "unknown"

(***************************************************************************)
(* Python helpers.                                                         *)
(***************************************************************************)
NoneList == [none |-> TRUE, items |-> <<>>]

List(s) == [none |-> FALSE, items |-> s]

\* truth value of a "list or None": None and [] are falsy
Truthy(l) == (~l.none) /\ Len(l.items) > 0

\* x in list
InList(x, s) == \E k \in 1..Len(s) : s[k] = x

\* dict.get(key, default)
Get(d, key, default) == IF key \in DOMAIN d THEN d[key] ELSE default

\* list.reverse()
Reverse(s) == [k \in 1..Len(s) |-> s[Len(s) + 1 - k]]

RECURSIVE SelectSeqBy(_, _)
\* list comprehension [v for v in s if v['currency'] in keep]
SelectSeqBy(s, keep) ==
    IF s = <<>> THEN <<>>
    ELSE LET rest == SelectSeqBy(Tail(s), keep)
         IN  IF InList(Head(s)["currency"], keep) THEN <<Head(s)>> \o rest ELSE rest

(***************************************************************************)
(* date -> 'DD.MM.YYYY' (date.strftime with PB_API_DATE_FORMAT).           *)
(* Ord2Ymd follows datetime's ordinal-to-(year, month, day) conversion.    *)
(***************************************************************************)
DAYS_IN_MONTH == <<31, 28, 31, 30, 31, 30, 31, 31, 30, 31, 30, 31>>

DAYS_BEFORE_MONTH == <<0, 31, 59, 90, 120, 151, 181, 212, 243, 273, 304, 334>>

Ord2Ymd(ordinal) ==
    LET n0   == ordinal - 1
        n400 == n0 \div 146097
        r400 == n0 % 146097
        n100 == r400 \div 36524
        r100 == r400 % 36524
        n4   == r100 \div 1461
        r4   == r100 % 1461
        n1   == r4 \div 365
        n    == r4 % 365
        year == n400 * 400 + 1 + n100 * 100 + n4 * 4 + n1
        leap == (n1 = 3) /\ ((n4 # 24) \/ (n100 = 3))
        m0   == (n + 50) \div 32
        p0   == DAYS_BEFORE_MONTH[m0] + (IF m0 > 2 /\ leap THEN 1 ELSE 0)
        month == IF p0 > n THEN m0 - 1 ELSE m0
        preceding == IF p0 > n
                     THEN p0 - (DAYS_IN_MONTH[month]
                                + (IF month = 2 /\ leap THEN 1 ELSE 0))
                     ELSE p0
    IN  IF n1 = 4 \/ n100 = 4
        THEN [year |-> year - 1, month |-> 12, day |-> 31]
        ELSE [year |-> year, month |-> month, day |-> n - preceding + 1]

DigitChars == <<"0", "1", "2", "3", "4", "5", "6", "7", "8", "9">>

Digit(k) == DigitChars[k + 1]

\* %d and %m: two digits, zero padded
Pad2(k) == <<Digit(k \div 10), Digit(k % 10)>>

\* %Y for a four-digit year
Year4(y) == <<Digit(y \div 1000), Digit((y \div 100) % 10),
              Digit((y \div 10) % 10), Digit(y % 10)>>

Strftime(ordinal) ==
    LET ymd == Ord2Ymd(ordinal)
    IN  Pad2(ymd.day) \o <<".">> \o Pad2(ymd.month) \o <<".">> \o Year4(ymd.year)

(***************************************************************************)
(* Exceptions.  An exception is a record; NoError stands for "none".       *)
(***************************************************************************)
\* direct base class of each exception class the run can meet
BaseClass ==
    [ValueError              |-> "Exception",
     JSONDecodeError         |-> "ValueError",
     PBRequestError          |-> "Exception",
     ClientError             |-> "Exception",
     ClientConnectorError    |-> "ClientError",
     ClientConnectorDNSError |-> "ClientError",
     ContentTypeError        |-> "ClientError",
     TimeoutError            |-> "Exception"]

\* isinstance(exception of class t, cls), as an except clause decides it
IsInstance(t, cls) == t = cls \/ BaseClass[t] = cls

NoParams == [date |-> <<>>]

NoError ==
    [type |-> "None", text |-> "", url |-> "", params |-> NoParams,
     status |-> 0, cause |-> ""]

\* ValueError("Incorrect offset value. Please choose value from 1 to 10.")
IncorrectOffsetError ==
    [NoError EXCEPT !.type = "ValueError", !.text = "Incorrect offset value"]

\* PBRequestError(f'Request status: {status}. Url: {url}, params: {params}')
RequestStatusError(status, url, params) ==
    [type |-> "PBRequestError", text |-> "Request status", url |-> url,
     params |-> params, status |-> status, cause |-> ""]

\* PBRequestError(f'Connection error: {url}', str(error))
ConnectionError(url, cause) ==
    [type |-> "PBRequestError", text |-> "Connection error", url |-> url,
     params |-> NoParams, status |-> 0, cause |-> cause]

\* an exception of class t raised by the library, passing through unchanged
LibraryError(t) == [NoError EXCEPT !.type = t, !.cause = t]

\* what leaves the try block of get_request_to_pb when the library raises an
\* exception of class t: "except ClientError" wraps it, anything else passes
ExceptClientError(t, url) ==
    IF IsInstance(t, "ClientError") THEN ConnectionError(url, t) ELSE LibraryError(t)

(***************************************************************************)
(* filter_exchange_info_by_currency                                        *)
(***************************************************************************)
\* variant: the additional codes replace the defaults
ReplacedCurrencyList(additional_currency_list) ==
    IF Truthy(additional_currency_list)
    THEN additional_currency_list.items
    ELSE DEFAULT_CURRENCY_LIST

\* currency_list after the optional extend
ExtendedCurrencyList(additional_currency_list) ==
    IF Truthy(additional_currency_list)
    THEN DEFAULT_CURRENCY_LIST \o additional_currency_list.items
    ELSE DEFAULT_CURRENCY_LIST

filter_exchange_info_by_currency(currency_exchange_info, additional_currency_list) ==
    [currency_exchange_info EXCEPT
        !.exchangeRate = SelectSeqBy(@, ExtendedCurrencyList(additional_currency_list))]

(***************************************************************************)
(* reformat_currency_exchange_info                                         *)
(***************************************************************************)
EmptyDict == [k \in {} |-> k]

\* variant: a key already present keeps its value (setdefault)
DictSetDefault(d, key, value) ==
    [k \in (DOMAIN d) \cup {key} |-> IF k \in DOMAIN d THEN d[k] ELSE value]

\* d[key] = value
DictSet(d, key, value) ==
    [k \in (DOMAIN d) \cup {key} |-> IF k = key THEN value ELSE d[k]]

\* the {'sale': ..., 'purchase': ...} record of one rate entry
RateRecord(value) ==
    [sale     |-> Get(value, "saleRate", Unknown),
     purchase |-> Get(value, "purchaseRate", Unknown)]

RECURSIVE InfoByDate(_, _)
\* the for loop filling info_by_date, entry by entry
InfoByDate(entries, info_by_date) ==
    IF entries = <<>> THEN info_by_date
    ELSE InfoByDate(Tail(entries),
                    DictSet(info_by_date, Head(entries)["currency"],
                            RateRecord(Head(entries))))

reformat_currency_exchange_info(currency_exchange_info) ==
    [d \in {currency_exchange_info.date} |->
        InfoByDate(currency_exchange_info.exchangeRate, EmptyDict)]

(***************************************************************************)
(* State.                                                                  *)
(***************************************************************************)
VARIABLES
    pc,                     \* where the run of main() stands
    days_offset,            \* arguments.days_offset
    currency_list,          \* arguments.currency split, or None
    today,                  \* the calendar day date.today() returns now
    ticked,                 \* midnight has passed during the list comprehension
    date_range,             \* date_range, under construction and then final
    idx,                    \* position of the for loop in date_range
    session_open,           \* ClientSession objects entered and not yet exited
    sessions_opened,        \* ClientSession objects created so far
    in_flight,              \* session.get contexts entered and not yet left
    requests,               \* params of every request issued, in order
    responses,              \* every body as response.json() returned it
                            \* (before the filter changes it), in order,
                            \* each with the params of the request it answers
    outcome,                \* how the last awaited library call ended
    currency_exchange_info, \* the accumulating result list
    result,                 \* main's result, None until the call returns
    error,                  \* the exception propagating, NoError if none
    caught,                 \* except clauses of main executed
    stdout,                 \* what print() has written
    fn_pc,                  \* FnSpec: stage of the pure-function pipeline
    fn_info,                \* FnSpec: the caller's response dict, which the
                            \* filter changes in place
    fn_given,               \* FnSpec: the value fn_info had when the filter
                            \* was called (history)
    fn_additional,          \* FnSpec: additional_currency_list
    fn_filtered,            \* FnSpec: what the filter returned
    fn_reformatted          \* FnSpec: what the reshaper returned

runVars == <<pc, days_offset, currency_list, today, ticked, date_range, idx,
             session_open, sessions_opened, in_flight, requests, responses,
             outcome, currency_exchange_info, result, error, caught, stdout>>

fnVars == <<fn_pc, fn_info, fn_given, fn_additional, fn_filtered, fn_reformatted>>

vars == <<runVars, fnVars>>

(***************************************************************************)
(* Inputs and the environment's choices.                                   *)
(***************************************************************************)
\* values of the positional argument (argparse type=int)
Offsets == (0 - OffsetMargin) .. (MAX_DAYS_OFFSET + OffsetMargin)

\* values of currency_list in main: None, or the split --currency string
CurrencyArgs == {NoneList, List(<<"GBP">>)}

\* the day the run starts on: 2024-03-02 (the range crosses 29.02.2024) and
\* 2025-01-04 (the range crosses the turn of the year)
Todays == {738947, 739255}

\* response statuses the service may answer with
Statuses == {HTTP_OK, 404, 500}

\* exceptions session.get may raise: connection refused, DNS failure (both
\* ClientError), and the expiry of the session's total timeout, which aiohttp
\* raises as asyncio.TimeoutError, not a ClientError
TransportErrors == {"ClientConnectorError", "ClientConnectorDNSError", "TimeoutError"}

\* exceptions response.json() may raise: unexpected content type (a
\* ClientError) and a body that is not JSON (json.JSONDecodeError, a ValueError)
JsonErrors == {"ContentTypeError", "JSONDecodeError"}

\* exchangeRate arrays the service may answer with
RateLists ==
    { << [currency |-> "USD", saleRate |-> "27.5", purchaseRate |-> "27.1"],
         [currency |-> "GBP", saleRate |-> "33.2", purchaseRate |-> "32.0"],
         [currency |-> "EUR", saleRate |-> "30.4"] >>,
      << [currency |-> "EUR", saleRate |-> "30.6", purchaseRate |-> "30.0"],
         [currency |-> "usd", saleRate |-> "1.0"],
         [currency |-> "USD", purchaseRate |-> "27.2"] >> }

\* the bodies the service may answer a request with: it echoes the date asked
Bodies(params) == {[date |-> params.date, exchangeRate |-> r] : r \in RateLists}

\* how an awaited call of the library ended: with a response of some status
\* ("status"), with the parsed body ("body"), or with an exception raised by
\* session.get ("get_raised") or by response.json() ("json_raised")
NoOutcome == [kind |-> "none", status |-> 0, exc |-> ""]

NoInfo == [date |-> <<>>, exchangeRate |-> <<>>]

FnIdle ==
    /\ fn_pc = "off"
    /\ fn_info = NoInfo
    /\ fn_given = NoInfo
    /\ fn_additional = NoneList
    /\ fn_filtered = NoInfo
    /\ fn_reformatted = EmptyDict

Init ==
    /\ pc = "start"
    /\ days_offset \in Offsets
    /\ currency_list \in CurrencyArgs
    /\ today \in Todays
    /\ ticked = FALSE
    /\ date_range = <<>>
    /\ idx = 1
    /\ session_open = 0
    /\ sessions_opened = 0
    /\ in_flight = 0
    /\ requests = <<>>
    /\ responses = <<>>
    /\ outcome = NoOutcome
    /\ currency_exchange_info = <<>>
    /\ result = NoneList
    /\ error = NoError
    /\ caught = 0
    /\ stdout = <<>>
    /\ FnIdle

(***************************************************************************)
(* get_currency_exchange_info_for_period                                   *)
(***************************************************************************)
\* variant: the upper limit is off by one
InvalidOffsetLoose(offset) == offset > MAX_DAYS_OFFSET + 1 \/ offset <= 0

\* the condition of the offset check
InvalidOffset(offset) == offset > MAX_DAYS_OFFSET \/ offset <= 0

\* main calls the function; the offset check raises or lets the run go on
Validate ==
    /\ pc = "start"
    /\ IF InvalidOffset(days_offset)
       THEN /\ error' = IncorrectOffsetError
            /\ pc' = "raised"
       ELSE /\ error' = error
            /\ pc' = "build"
    /\ UNCHANGED <<days_offset, currency_list, today, ticked, date_range, idx,
                   session_open, sessions_opened, in_flight, requests, responses, outcome,
                   currency_exchange_info, result, caught, stdout, fnVars>>

\* midnight passes between two evaluations of date.today() in the list
\* comprehension (the comprehension is far shorter than a day: at most once)
Tick ==
    /\ pc = "build"
    /\ date_range # <<>>
    /\ ~ticked
    /\ today' = today + 1
    /\ ticked' = TRUE
    /\ UNCHANGED <<pc, days_offset, currency_list, date_range, idx, session_open,
                   sessions_opened, in_flight, requests, responses, outcome,
                   currency_exchange_info, result, error, caught, stdout, fnVars>>

\* element i of the comprehension: date.today() - timedelta(days=i)
RangeElement(now, i) == now - i

\* date_range once the comprehension is complete
FinishRange(dates) == Reverse(dates)

\* one element of the list comprehension, evaluated with the clock as it is
\* now; the last one is followed by date_range.reverse()
BuildDateRange ==
    /\ pc = "build"
    /\ LET i     == Len(date_range) + 1
           dates == Append(date_range, RangeElement(today, i))
       IN  IF i = days_offset
           THEN /\ date_range' = FinishRange(dates)
                /\ pc' = "loop"
           ELSE /\ date_range' = dates
                /\ pc' = pc
    /\ UNCHANGED <<days_offset, currency_list, today, ticked, idx, session_open,
                   sessions_opened, in_flight, requests, responses, outcome,
                   currency_exchange_info, result, error, caught, stdout, fnVars>>

\* params of the request for one date
Params(d) == [date |-> Strftime(d)]

\* async with ClientSession() as session: entering
SessionEnter(n) == n + 1

\* variant: the session is never closed
SessionLeak(n) == n

\* async with ClientSession() as session: leaving, on return or exception
SessionExit(n) == n - 1

\* the date the for loop takes next
NextDate(dates, k) == dates[k]

\* the for loop has another date
HasNext(dates, k) == k <= Len(dates)

\* a loop iteration up to its first suspension: the session is created and
\* session.get is awaited
StartRequest ==
    /\ pc = "loop"
    /\ HasNext(date_range, idx)
    /\ session_open' = SessionEnter(session_open)
    /\ sessions_opened' = sessions_opened + 1
    /\ in_flight' = in_flight + 1
    /\ requests' = Append(requests, Params(NextDate(date_range, idx)))
    /\ pc' = "get"
    /\ UNCHANGED <<days_offset, currency_list, today, ticked, date_range, idx,
                   responses, outcome, currency_exchange_info, result, error, caught,
                   stdout, fnVars>>

\* variant: the loop swallows the exception and goes on
RaiseTargetRetry == "loop"

\* where control goes when get_request_to_pb raises: nothing between the
\* call and main catches, so the exception arrives in main
RaiseTarget == "raised"

\* an exception leaves get_request_to_pb: both context managers are left
Raise(exc, how) ==
    /\ error' = exc
    /\ outcome' = how
    /\ in_flight' = in_flight - 1
    /\ session_open' = SessionExit(session_open)
    /\ pc' = RaiseTarget
    /\ UNCHANGED <<days_offset, currency_list, today, ticked, date_range, idx,
                   sessions_opened, requests, responses, currency_exchange_info,
                   result, caught, stdout, fnVars>>

\* the status check's outcome: the exception to raise, NoError to go on
StatusCheck(status, url, params) ==
    IF status # HTTP_OK THEN RequestStatusError(status, url, params) ELSE NoError

\* session.get completes with a response
GetResponse ==
    /\ pc = "get"
    /\ \E status \in Statuses :
          LET exc == StatusCheck(status, EXCHANGE_API_URL, requests[Len(requests)])
              how == [NoOutcome EXCEPT !.kind = "status", !.status = status]
          IN  IF exc # NoError
              THEN Raise(exc, how)
              ELSE /\ pc' = "json"
                   /\ outcome' = how
                   /\ UNCHANGED <<days_offset, currency_list, today, ticked,
                                  date_range, idx, session_open, sessions_opened,
                                  in_flight, requests, responses,
                                  currency_exchange_info, result, error, caught,
                                  stdout, fnVars>>

\* session.get raises
GetFails ==
    /\ pc = "get"
    /\ \E t \in TransportErrors :
          Raise(ExceptClientError(t, EXCHANGE_API_URL),
                [NoOutcome EXCEPT !.kind = "get_raised", !.exc = t])

\* response.json() raises
JsonFails ==
    /\ pc = "json"
    /\ \E t \in JsonErrors :
          Raise(ExceptClientError(t, EXCHANGE_API_URL),
                [NoOutcome EXCEPT !.kind = "json_raised", !.exc = t])

\* variant: the item is inserted at the front
AccumulateFront(list, item) == <<item>> \o list

\* the list after currency_exchange_info.append(item)
Accumulate(list, item) == Append(list, item)

\* response.json() returns; the body is filtered, reshaped and appended, and
\* the loop moves to the next date
ReadJson ==
    /\ pc = "json"
    /\ \E body \in Bodies(requests[Len(requests)]) :
          /\ responses' = Append(responses,
                                  [params |-> requests[Len(requests)], body |-> body])
          /\ currency_exchange_info' =
                Accumulate(currency_exchange_info,
                           reformat_currency_exchange_info(
                               filter_exchange_info_by_currency(body, currency_list)))
    /\ outcome' = [NoOutcome EXCEPT !.kind = "body"]
    /\ in_flight' = in_flight - 1
    /\ session_open' = SessionExit(session_open)
    /\ idx' = idx + 1
    /\ pc' = "loop"
    /\ UNCHANGED <<days_offset, currency_list, today, ticked, date_range,
                   sessions_opened, requests, result, error, caught, stdout, fnVars>>

\* the loop is exhausted: return currency_exchange_info
Return ==
    /\ pc = "loop"
    /\ ~HasNext(date_range, idx)
    /\ result' = List(currency_exchange_info)
    /\ pc' = "returned"
    /\ UNCHANGED <<days_offset, currency_list, today, ticked, date_range, idx,
                   session_open, sessions_opened, in_flight, requests, responses, outcome,
                   currency_exchange_info, error, caught, stdout, fnVars>>

(***************************************************************************)
(* main                                                                    *)
(***************************************************************************)
NoData == <<>>

\* print(result)
PrintResult ==
    /\ pc = "returned"
    /\ stdout' = Append(stdout, [kind |-> "result", data |-> result.items,
                                 error |-> NoError])
    /\ pc' = "done"
    /\ UNCHANGED <<days_offset, currency_list, today, ticked, date_range, idx,
                   session_open, sessions_opened, in_flight, requests, responses, outcome,
                   currency_exchange_info, result, error, caught, fnVars>>

\* the except clause of main that takes an exception of class t, "none" if
\* no clause does
Handler(t) ==
    IF IsInstance(t, "ValueError") THEN "ValueError"
    ELSE IF IsInstance(t, "PBRequestError") THEN "PBRequestError"
    ELSE "none"

\* the exception reaches main: one of the except clauses prints it, or it
\* leaves main and asyncio.run re-raises it
MainExcept ==
    /\ pc = "raised"
    /\ LET h == Handler(error.type)
       IN  IF h = "none"
           THEN /\ pc' = "crashed"
                /\ UNCHANGED <<caught, stdout>>
           ELSE /\ pc' = "done"
                /\ caught' = caught + 1
                /\ stdout' = Append(stdout,
                      [kind  |-> IF h = "ValueError" THEN "error" ELSE "oops",
                       data  |-> NoData,
                       error |-> error])
    /\ UNCHANGED <<days_offset, currency_list, today, ticked, date_range, idx,
                   session_open, sessions_opened, in_flight, requests, responses, outcome,
                   currency_exchange_info, result, error, fnVars>>

Next ==
    \/ Validate
    \/ Tick
    \/ BuildDateRange
    \/ StartRequest
    \/ GetResponse
    \/ GetFails
    \/ JsonFails
    \/ ReadJson
    \/ Return
    \/ PrintResult
    \/ MainExcept

Spec == Init /\ [][Next]_vars

(***************************************************************************)
(* FnSpec: the two pure functions on bounded inputs.                       *)
(***************************************************************************)
Absent == "absent"

FnCurrencies == {"USD", "EUR", "GBP", "usd"}

FnSaleRates == {Absent, "27.5"}

FnPurchaseRates == {Absent, "27.1"}

\* a rate entry; a rate that is Absent leaves its key out
RateEntry(c, sale, purchase) ==
    [k \in {"currency"} \cup (IF sale = Absent THEN {} ELSE {"saleRate"})
                        \cup (IF purchase = Absent THEN {} ELSE {"purchaseRate"}) |->
        IF k = "currency" THEN c ELSE IF k = "saleRate" THEN sale ELSE purchase]

FnEntries ==
    {RateEntry(c, s, p) : c \in FnCurrencies, s \in FnSaleRates, p \in FnPurchaseRates}

FnRateLists == UNION {[1..n -> FnEntries] : n \in 0..MaxLen}

FnDates == {Strftime(738945), Strftime(739251)}

FnAdditional == {NoneList, List(<<>>), List(<<"GBP">>), List(<<"usd", "GBP">>)}

RunIdle ==
    /\ pc = "off"
    /\ days_offset = 0
    /\ currency_list = NoneList
    /\ today = 0
    /\ ticked = FALSE
    /\ date_range = <<>>
    /\ idx = 1
    /\ session_open = 0
    /\ sessions_opened = 0
    /\ in_flight = 0
    /\ requests = <<>>
    /\ responses = <<>>
    /\ outcome = NoOutcome
    /\ currency_exchange_info = <<>>
    /\ result = NoneList
    /\ error = NoError
    /\ caught = 0
    /\ stdout = <<>>

FnInit ==
    /\ RunIdle
    /\ fn_pc = "input"
    /\ fn_info \in {[date |-> d, exchangeRate |-> r] : d \in FnDates, r \in FnRateLists}
    /\ fn_given = fn_info
    /\ fn_additional \in FnAdditional
    /\ fn_filtered = NoInfo
    /\ fn_reformatted = EmptyDict

FnFilter ==
    /\ fn_pc = "input"
    /\ fn_filtered' = filter_exchange_info_by_currency(fn_info, fn_additional)
    \* the dict returned is the dict given: the caller's object is filtered too
    /\ fn_info' = fn_filtered'
    /\ fn_pc' = "filtered"
    /\ UNCHANGED <<runVars, fn_given, fn_additional, fn_reformatted>>

FnReformat ==
    /\ fn_pc = "filtered"
    /\ fn_reformatted' = reformat_currency_exchange_info(fn_filtered)
    /\ fn_pc' = "reformatted"
    /\ UNCHANGED <<runVars, fn_info, fn_given, fn_additional, fn_filtered>>

FnNext == FnFilter \/ FnReformat

FnSpec == FnInit /\ [][FnNext]_vars

(***************************************************************************)
(* Properties.                                                             *)
(***************************************************************************)
Range(seq) == {seq[k] : k \in 1..Len(seq)}

\* the run is over: main has returned, or the exception has left it
Terminated == pc \in {"done", "crashed"}

\* the date range is complete
RangeBuilt == days_offset \in 1..10 /\ pc \notin {"start", "build", "off"}

\* a fetch has failed: an exception other than the offset error is around
FetchFailed == error # NoError /\ error # IncorrectOffsetError

\* something other than an error message was printed
DataPrinted == \E k \in 1..Len(stdout) : stdout[k].kind = "result" \/ stdout[k].data # NoData

----------------------------------------------------------------------------
\* C1: when days_offset <= 0 or days_offset > 10 the call fails with the
\* incorrect-offset error and the run never issues a request nor opens a
\* session.
C1_InvalidOffsetNoNetwork ==
    (days_offset <= 0 \/ days_offset > 10) =>
        /\ requests = <<>>
        /\ sessions_opened = 0
        /\ session_open = 0
        /\ in_flight = 0
        /\ date_range = <<>>
        /\ result = NoneList
        /\ pc \in {"start", "raised", "done", "off"}
        /\ pc \in {"raised", "done"} => error = IncorrectOffsetError

C1_Witness ==
    /\ days_offset = 11
    /\ pc = "done"
    /\ error = IncorrectOffsetError
    /\ Len(stdout) = 1

----------------------------------------------------------------------------
\* C2: for every offset in 1..10 the date range has exactly `offset`
\* pairwise-distinct dates in strictly increasing order, the oldest being
\* today - offset and the newest today - 1, and today is not in it.
C2_DateRangeChronological ==
    RangeBuilt =>
        /\ Len(date_range) = days_offset
        /\ \A i, j \in 1..Len(date_range) : i < j => date_range[i] < date_range[j]
        /\ date_range[1] = today - days_offset
        /\ date_range[Len(date_range)] = today - 1
        /\ today \notin Range(date_range)

----------------------------------------------------------------------------
\* C3: once the fetch for the k-th date has failed, the failed request stays
\* the last request ever issued (nothing later, no retry), exactly the k-1
\* earlier fetches have completed, and no result, not even a partial one, is
\* returned or printed.
C3_FailFast ==
    FetchFailed =>
        /\ pc \in {"raised", "done", "crashed"}
        /\ Len(requests) = idx
        /\ requests[idx] = Params(date_range[idx])
        /\ Len(responses) = idx - 1
        /\ Len(currency_exchange_info) = idx - 1
        /\ in_flight = 0
        /\ result = NoneList
        /\ ~DataPrinted

C3_Witness ==
    /\ Terminated
    /\ error.status = 500
    /\ idx = 2
    /\ days_offset = 3
    /\ Len(currency_exchange_info) = 1
    /\ Len(requests) = 2

----------------------------------------------------------------------------
\* C4: a result is returned only if every fetch of the range succeeded; it
\* then holds one element per date of the range, the i-th being built from
\* the response to the request for the i-th date, oldest date first.
C4_AllOrNothing ==
    (~result.none) =>
        /\ error = NoError
        /\ Len(date_range) = days_offset
        /\ Len(result.items) = days_offset
        /\ Len(requests) = days_offset
        /\ Len(responses) = days_offset
        /\ \A k \in 1..days_offset :
              /\ requests[k] = Params(date_range[k])
              /\ responses[k].params = requests[k]
              /\ result.items[k] =
                    reformat_currency_exchange_info(
                        filter_exchange_info_by_currency(responses[k].body,
                                                         currency_list))
        /\ \A i, j \in 1..days_offset : i < j => date_range[i] <= date_range[j]

C4_Witness ==
    /\ pc = "done"
    /\ days_offset = 3
    /\ ~result.none
    /\ Len(stdout) = 1
    /\ stdout[1].kind = "result"
    /\ Len(stdout[1].data) = 3
    /\ responses[1].body.exchangeRate # responses[2].body.exchangeRate

----------------------------------------------------------------------------
\* C5: at most one request is in flight; a request is issued only after all
\* earlier ones completed successfully; each date is requested at most once;
\* requests follow the chronological order of the dates; a run issues at most
\* `offset` requests.
C5_StrictlySequential ==
    /\ in_flight <= 1
    /\ Len(requests) <= IF days_offset \in 1..10 THEN days_offset ELSE 0
    /\ Len(responses) >= Len(requests) - 1
    /\ Len(responses) <= Len(requests)
    /\ \A i, j \in 1..Len(requests) : i < j => requests[i] # requests[j]
    /\ \A k \in 1..Len(requests) : requests[k] = Params(date_range[k])
    /\ \A i, j \in 1..Len(requests) : i < j => date_range[i] <= date_range[j]

----------------------------------------------------------------------------
\* C6: a status other than 200 yields the request-failed error with the
\* endpoint, the params and the status; every exception raised by
\* session.get (connection refused, DNS failure, timeout) yields the
\* connection-failed error with the endpoint and the cause.
C6_FailureClassification ==
    /\ (outcome.kind = "status" /\ outcome.status # 200) =>
          error = RequestStatusError(outcome.status, EXCHANGE_API_URL,
                                     Params(date_range[idx]))
    /\ outcome.kind = "get_raised" =>
          error = ConnectionError(EXCHANGE_API_URL, outcome.exc)

----------------------------------------------------------------------------
\* C7: every failure ends with the run terminated normally, the exception
\* caught exactly once, exactly one message printed and no data printed; no
\* exception leaves main.
C7_TopLevelHandling ==
    /\ pc # "crashed"
    /\ (error # NoError /\ pc # "raised") =>
          /\ pc = "done"
          /\ caught = 1
          /\ Len(stdout) = 1
          /\ stdout[1].kind \in {"error", "oops"}
          /\ stdout[1].error = error
          /\ ~DataPrinted

----------------------------------------------------------------------------
\* C8: the filter returns exactly the entries whose code is USD, EUR or one
\* of the additional codes, in their original order; None and [] add nothing.
AllowedCodes ==
    {"USD", "EUR"} \cup (IF fn_additional.none THEN {} ELSE Range(fn_additional.items))

KeptIndices ==
    {i \in 1..Len(fn_given.exchangeRate) : fn_given.exchangeRate[i]["currency"] \in AllowedCodes}

\* the k-th smallest index kept
KthKept(k) == CHOOSE i \in KeptIndices : Cardinality({j \in KeptIndices : j <= i}) = k

C8_FilterSubsequence ==
    fn_pc \in {"filtered", "reformatted"} =>
        /\ fn_filtered.date = fn_given.date
        /\ fn_info = fn_filtered
        /\ DOMAIN fn_filtered = {"date", "exchangeRate"}
        /\ Len(fn_filtered.exchangeRate) = Cardinality(KeptIndices)
        /\ \A k \in 1..Cardinality(KeptIndices) :
              fn_filtered.exchangeRate[k] = fn_given.exchangeRate[KthKept(k)]

C8_Witness ==
    /\ fn_pc = "filtered"
    /\ fn_additional = List(<<"GBP">>)
    /\ Len(fn_given.exchangeRate) = 3
    /\ fn_given.exchangeRate[1]["currency"] = "GBP"
    /\ fn_given.exchangeRate[2]["currency"] = "usd"
    /\ fn_given.exchangeRate[3]["currency"] = "USD"
    /\ Len(fn_filtered.exchangeRate) = 2

----------------------------------------------------------------------------
\* C9 as stated: the result has the single key date, its value has exactly
\* the codes of the filtered response, and every entry of the filtered
\* response has its rates (or 'unknown') in the record of its code.
ExpectedRecord(entry) ==
    [sale     |-> IF "saleRate" \in DOMAIN entry THEN entry["saleRate"] ELSE "unknown",
     purchase |-> IF "purchaseRate" \in DOMAIN entry THEN entry["purchaseRate"]
                  ELSE "unknown"]

FilteredCodes == {fn_filtered.exchangeRate[k]["currency"] : k \in 1..Len(fn_filtered.exchangeRate)}

C9_EveryEntryHeld ==
    fn_pc = "reformatted" =>
        /\ DOMAIN fn_reformatted = {fn_filtered.date}
        /\ DOMAIN fn_reformatted[fn_filtered.date] = FilteredCodes
        /\ \A k \in 1..Len(fn_filtered.exchangeRate) :
              fn_reformatted[fn_filtered.date][fn_filtered.exchangeRate[k]["currency"]]
                  = ExpectedRecord(fn_filtered.exchangeRate[k])

\* the last entry of the filtered response with code c
LastIndexOf(c) ==
    CHOOSE k \in 1..Len(fn_filtered.exchangeRate) :
        /\ fn_filtered.exchangeRate[k]["currency"] = c
        /\ \A m \in (k + 1)..Len(fn_filtered.exchangeRate) :
              fn_filtered.exchangeRate[m]["currency"] # c

\* C9 amended: the result has the single key date, its value has exactly the
\* codes of the filtered response, and the record of a code holds the rates
\* (or 'unknown') of the last entry with that code.
C9_LastEntryHeld ==
    fn_pc = "reformatted" =>
        /\ DOMAIN fn_reformatted = {fn_filtered.date}
        /\ DOMAIN fn_reformatted[fn_filtered.date] = FilteredCodes
        /\ \A c \in FilteredCodes :
              fn_reformatted[fn_filtered.date][c]
                  = ExpectedRecord(fn_filtered.exchangeRate[LastIndexOf(c)])

C9_Witness ==
    /\ fn_pc = "reformatted"
    /\ Len(fn_filtered.exchangeRate) = 3
    /\ fn_filtered.exchangeRate[1] = RateEntry("USD", "27.5", Absent)
    /\ fn_filtered.exchangeRate[2] = RateEntry("EUR", Absent, Absent)
    /\ fn_filtered.exchangeRate[3] = RateEntry("USD", Absent, "27.1")
    /\ fn_reformatted[fn_filtered.date]["USD"] = [sale |-> "unknown", purchase |-> "27.1"]
    /\ fn_reformatted[fn_filtered.date]["EUR"] = [sale |-> "unknown", purchase |-> "unknown"]

----------------------------------------------------------------------------
\* C10: every request has a session of its own, a session is open only
\* while its request is awaited, never two at once, and none is open when the
\* call has returned or raised.
C10_SessionScoped ==
    /\ session_open \in {0, 1}
    /\ sessions_opened = Len(requests)
    /\ (session_open = 1) <=> (pc \in {"get", "json"})
    /\ pc \in {"returned", "raised", "done", "crashed"} => session_open = 0

C10_Witness ==
    /\ pc = "crashed"
    /\ sessions_opened = 2
    /\ session_open = 0
    /\ outcome.exc = "TimeoutError"

====
